---- MODULE Spec2Model ----
(***************************************************************************)
(* The medchain-oracle HTTP service (src/main.py): four endpoints of one   *)
(* FastAPI application.  GET /, GET /health and GET /shortage-prediction   *)
(* return constant bodies; POST /verify takes a multipart file upload and  *)
(* answers with a verdict drawn from the process-wide unseeded random      *)
(* generator.  The handler never reads the uploaded file.                  *)
(*                                                                         *)
(* Numbers: a fraction in [0,1] is an integer count of 1/10000 (0.55 is    *)
(* 5500); the reported confidence is an integer count of tenths of a       *)
(* percent (55.0 is 550); the reported anomaly score is an integer count   *)
(* of thousandths (0.1 is 100).  Upload sizes are whole megabytes.         *)
(***************************************************************************)
EXTENDS Integers, FiniteSets

\* ---------------------------------------------------------------- bounds
\* Number of connections on which a POST /verify may be in flight at once.
MaxInFlight == 2

\* Distance between two sampled values of a random.uniform draw.
Stride == 2665

\* ------------------------------------------------ constants of the source
\* random.uniform(0.55, 0.95)
ConfLo == 5500

ConfHi == 9500

\* confidence > 0.5
AuthenticThreshold == 5000

\* random.uniform(0.1, 0.5)
AnomLo == 1000

AnomHi == 5000

\* ------------------------------------- parameters of the specified design
\* The design's size ceiling for an artifact, in megabytes (spec.md 8).
Ceiling == 5

\* The design's admission capacities that leave room for one excess request.
Capacities == 1..(MaxInFlight - 1)

\* ----------------------------------------------------------------- inputs
Slots == 1..MaxInFlight

\* A request without the multipart field "file".
NoFile == -1

\* Sizes of an uploaded file: empty, at the ceiling, over the ceiling.
UploadSizes == {0, Ceiling, Ceiling + 1}

Uploads == UploadSizes \cup {NoFile}

\* ------------------------------------------------------- the random source
\* The values random.uniform(lo, hi) is sampled at: lo, hi, and every
\* Stride-th value in between.
UniformDraws(lo, hi) == {x \in lo..hi : (x - lo) % Stride = 0} \cup {hi}

ConfidenceDrawsLow == UniformDraws(ConfLo - 1000, ConfHi)

ConfidenceDraws == UniformDraws(ConfLo, ConfHi)

AnomalyDraws == UniformDraws(AnomLo, AnomHi)

\* random.randint(10**63, 10**64-1) formatted 0x%064x: its two extremes.
HashDraws ==
    {"0x0000000000026e4d30eccc3215dd8f3157d27e23acbdcfe68000000000000000",
     "0x0000000000184f03e93ff9f4daa797ed6e38ed64bf6a1f00ffffffffffffffff"}

\* ------------------------------------------------------- pure computations
\* round(x, ndigits) of Python: to the nearest multiple of d, ties to even.
Round(n, d) ==
    LET q == n \div d
        r == n % d
    IN  IF 2 * r > d \/ (2 * r = d /\ q % 2 = 1) THEN q + 1 ELSE q

IsAuthenticStrict(confidence) == confidence > AuthenticThreshold + 1000

IsAuthentic(confidence) == confidence > AuthenticThreshold

RiskLevel(is_authentic) == IF is_authentic THEN "LOW" ELSE "HIGH"

\* The dictionary verify_drug returns.
VerdictBody(confidence, anomaly, hash) ==
    [authentic       |-> IsAuthentic(confidence),
     confidence      |-> Round(confidence, 10),
     risk_level      |-> RiskLevel(IsAuthentic(confidence)),
     anomaly_score   |-> Round(anomaly, 10),
     blockchain_hash |-> hash]

RootBody == [status |-> "MedChain Oracle Backend - Live", version |-> "1.0.0"]

HealthBodyDegraded == [status |-> "degraded", service |-> "medchain-oracle-api"]

HealthBody == [status |-> "healthy", service |-> "medchain-oracle-api"]

ShortageBody ==
    [drug           |-> "Insulin Glargine 100U/mL",
     location       |-> "Mumbai Central",
     risk_score     |-> 850,
     recommendation |-> "URGENT: Order 259 units immediately"]

\* FastAPI's answer to a request without the required field.
MissingFileBody == [detail |-> "field required"]

NoBody == [detail |-> "none"]

\* ------------------------------------------------------------------ state
VARIABLES
    inflight,   \* per connection: the POST /verify request being received
    resp,       \* the response sent last
    capacity    \* the design's admission capacity the deployment is run with

vars == <<inflight, resp, capacity>>

\* A connection with no request on it.
Idle == [busy |-> FALSE, upload |-> NoFile, full |-> FALSE, expired |-> FALSE]

NoResponse ==
    [endpoint |-> "none", status |-> 0, body |-> NoBody,
     upload |-> NoFile, full |-> FALSE, expired |-> FALSE]

\* The response to a GET request.
GetResponse(endpoint, body) ==
    [endpoint |-> endpoint, status |-> 200, body |-> body,
     upload |-> NoFile, full |-> FALSE, expired |-> FALSE]

\* The response to the POST /verify request on connection r.
VerifyResponse(r, status, body) ==
    [endpoint |-> "/verify", status |-> status, body |-> body,
     upload |-> inflight[r].upload, full |-> inflight[r].full,
     expired |-> inflight[r].expired]

InFlightCount == Cardinality({r \in Slots : inflight[r].busy})

Init ==
    /\ inflight = [r \in Slots |-> Idle]
    /\ resp = NoResponse
    /\ capacity \in Capacities

\* ---------------------------------------------------------------- actions
\* A POST /verify request arrives on connection r; the framework starts
\* receiving its body.  `full` records whether the design's admission
\* capacity was already taken at that moment.
Arrive(r, u) ==
    /\ ~inflight[r].busy
    /\ inflight' = [inflight EXCEPT ![r] =
                       [busy |-> TRUE, upload |-> u,
                        full |-> InFlightCount >= capacity, expired |-> FALSE]]
    /\ UNCHANGED <<resp, capacity>>

\* The design's deadline of the request on connection r passes.  Nothing in
\* the program reacts to it.
DeadlineExpires(r) ==
    /\ inflight[r].busy
    /\ ~inflight[r].expired
    /\ inflight' = [inflight EXCEPT ![r].expired = TRUE]
    /\ UNCHANGED <<resp, capacity>>

\* file: UploadFile = File(...): a request without the field is answered 422
\* before the handler runs.
missing_file(r) ==
    /\ inflight[r].busy
    /\ inflight[r].upload = NoFile
    /\ resp' = VerifyResponse(r, 422, MissingFileBody)
    /\ inflight' = [inflight EXCEPT ![r] = Idle]
    /\ UNCHANGED capacity

\* The handler of POST /verify: three draws from the random source, one
\* verdict, status 200.
verify_drug(r) ==
    /\ inflight[r].busy
    /\ inflight[r].upload # NoFile
    /\ \E confidence \in ConfidenceDraws, anomaly \in AnomalyDraws, hash \in HashDraws :
          resp' = VerifyResponse(r, 200, VerdictBody(confidence, anomaly, hash))
    /\ inflight' = [inflight EXCEPT ![r] = Idle]
    /\ UNCHANGED capacity

read_root ==
    /\ resp' = GetResponse("/", RootBody)
    /\ UNCHANGED <<inflight, capacity>>

health_check ==
    /\ resp' = GetResponse("/health", HealthBody)
    /\ UNCHANGED <<inflight, capacity>>

predict_shortage ==
    /\ resp' = GetResponse("/shortage-prediction", ShortageBody)
    /\ UNCHANGED <<inflight, capacity>>

Next ==
    \/ \E r \in Slots, u \in Uploads : Arrive(r, u)
    \/ \E r \in Slots : DeadlineExpires(r)
    \/ \E r \in Slots : missing_file(r)
    \/ \E r \in Slots : verify_drug(r)
    \/ read_root
    \/ health_check
    \/ predict_shortage

Spec == Init /\ [][Next]_vars

\* ------------------------------------------------------------- properties
IsVerdict == resp.endpoint = "/verify" /\ resp.status = 200

\* C1: in every 200 response of POST /verify, authentic is true exactly when
\* the returned confidence (rounded to one decimal) is greater than 50.0, and
\* risk_level is "LOW" when authentic is true and "HIGH" otherwise.
C1_VerdictConsistent ==
    IsVerdict =>
        /\ resp.body.authentic <=> (resp.body.confidence > 500)
        /\ resp.body.authentic => resp.body.risk_level = "LOW"
        /\ ~resp.body.authentic => resp.body.risk_level = "HIGH"

\* A verdict served to a request that arrived while another one was in flight.
C1_Witness ==
    /\ IsVerdict
    /\ resp.full
    /\ resp.body.authentic
    /\ resp.body.confidence > 500
    /\ resp.body.risk_level = "LOW"

\* C2: GET /health can be answered in every reachable state, and its answer
\* is always status 200 with the body {status: healthy, service:
\* medchain-oracle-api}, whatever requests came before or are in flight.
C2_HealthAlwaysHealthy ==
    /\ ENABLED health_check
    /\ resp.endpoint = "/health" =>
          /\ resp.status = 200
          /\ resp.body = [status |-> "healthy", service |-> "medchain-oracle-api"]

\* GET /health answered while every connection has a POST /verify in flight,
\* more than the design's capacity.
C2_Witness ==
    /\ resp.endpoint = "/health"
    /\ InFlightCount = MaxInFlight
    /\ InFlightCount > capacity

\* C3: with admission capacity 1, a POST /verify request that arrives while
\* another one is still in flight is answered 429 and gets no 200 verdict.
C3_SecondOverlappingGets429 ==
    (capacity = 1 /\ resp.endpoint = "/verify" /\ resp.full) => resp.status = 429

\* C4: when capacity-many requests are admitted and none is released, the
\* next admit() is rejected at once: the arriving request takes no place
\* among the in-flight requests and is answered 429 in that very step; and
\* when fewer than capacity-many are in flight, the arriving request is
\* admitted.
C4_AdmitRejectsAtCapacity ==
    [][\A r \in Slots :
          (~inflight[r].busy /\ inflight'[r] # inflight[r]) =>
              IF InFlightCount >= capacity
              THEN ~inflight'[r].busy /\ resp'.endpoint = "/verify" /\ resp'.status = 429
              ELSE inflight'[r].busy]_vars

\* C5: a POST /verify whose file is larger than the ceiling is answered 413
\* and never with a verdict.
C5_OversizeGets413 ==
    (resp.endpoint = "/verify" /\ resp.upload > Ceiling) => resp.status = 413

\* C6: two POST /verify requests with the same artifact answered by the same
\* process carry the same confidence and the same anomaly_score.
C6_ScoringDeterministic ==
    [][(IsVerdict /\ resp'.endpoint = "/verify" /\ resp'.status = 200
        /\ resp'.upload = resp.upload) =>
           /\ resp'.body.confidence = resp.body.confidence
           /\ resp'.body.anomaly_score = resp.body.anomaly_score]_vars

\* C7: a POST /verify request whose deadline expired before it completed is
\* answered 504 and never with a verdict.
C7_ExpiredGets504 ==
    (resp.endpoint = "/verify" /\ resp.upload # NoFile /\ resp.expired) =>
        resp.status = 504

\* C9: the number of requests in flight stays within 0..capacity.
C9_InFlightWithinCapacity ==
    InFlightCount \in 0..capacity

\* C10: every POST /verify request that reaches the handler is answered 200
\* with authentic = true, risk_level = "LOW", confidence in 55.0..95.0 and
\* anomaly_score in 0.1..0.5.
C10_AlwaysAuthentic ==
    (resp.endpoint = "/verify" /\ resp.upload # NoFile) =>
        /\ resp.status = 200
        /\ resp.body.authentic = TRUE
        /\ resp.body.risk_level = "LOW"
        /\ resp.body.confidence \in 550..950
        /\ resp.body.anomaly_score \in 100..500

\* A verdict at the low end of both ranges, for an oversize upload.
C10_Witness ==
    /\ IsVerdict
    /\ resp.upload > Ceiling
    /\ resp.body.confidence = 550
    /\ resp.body.anomaly_score = 100
====
